---- MODULE Spec2Model ----
(***************************************************************************)
(* Remote HTTP interception relay: the prefixed Transport                  *)
(* (RemoteHttpTransport), its four channel realizations (iframe and child  *)
(* process, interceptor and resolver side) and the request/response        *)
(* correlation protocol of RemoteHttpInterceptor / RemoteHttpResolver.     *)
(*                                                                         *)
(* A JavaScript string is a sequence of lexemes: every structural          *)
(* character the code inspects (":" above all) is a lexeme of its own, so  *)
(* startsWith, substring and the regular expressions are computed on the   *)
(* text and not assumed.                                                   *)
(***************************************************************************)
EXTENDS Integers, Sequences, FiniteSets, TLC

\* ------------------------------------------------------------ bounds
MaxListeners == 2     \* addMessageListener calls explored
MaxQueue == 1         \* events in flight on the channel
MaxStack == 3         \* nested dispose() frames before the call stack overflows
MaxReenter == 1       \* cleanups calling dispose() in one subscription list
MaxRequests == 2      \* intercepted requests in one run
MaxResolves == 2      \* resolve() calls on one promise before the noise stops

\* ------------------------------------------------------------ strings
StartsWith(s, p) ==
    /\ Len(p) <= Len(s)
    /\ SubSeq(s, 1, Len(p)) = p

Substring(s, n) ==
    SubSeq(s, n + 1, Len(s))

Colon == <<":">>

\* ------------------------------------------------------------ configuration
\* "ti": the interceptor-side transport (iframe / child process);
\* "tr": the resolver-side transport (parent window / parent process).
Transports == {"ti", "tr"}

Peer(t) == IF t = "ti" THEN "tr" ELSE "ti"

Realizations == {"iframe", "process", "custom"}

DefaultPrefix == <<"remote-http-transport">>

\* options.messagePrefix as configured; <<>> is the absent (or empty) option
PrefixOptions == { <<>>, <<"a">>, <<"a", ":", "b">> }

\* the configurations explored, <<option of ti, option of tr>>: equal
\* prefixes, unrelated ones and one prefix extending the other, either way
PrefixPairs ==
    { << <<>>, <<>> >>, << <<"a">>, <<"a">> >>, << <<>>, <<"a">> >>,
      << <<"a">>, <<"a", ":", "b">> >>, << <<"a", ":", "b">>, <<"a">> >>,
      << <<"a", ":", "b">>, <<"a", ":", "b">> >> }

EffectivePrefix(opt) ==
    IF opt = <<>> THEN DefaultPrefix ELSE opt

\* the origin of the window a transport runs in; "ox" is a third party
Origin(t) == IF t = "ti" THEN "oi" ELSE "or"

\* options.sourceOrigin: "" is the absent option
SourceOriginOptions(t) == { "", Origin(Peer(t)) }

\* The host environment of an endpoint:
\*   window       `typeof window !== 'undefined'`
\*   postMessage  `typeof window.postMessage === 'function'`
\*   distinct     the peer window (window.parent, options.targetWindow) is
\*                another window than `window`
\*   target       options.targetWindow / options.process was given
\*   processSend  `process.send` is defined
ReadyHost ==
    [window |-> TRUE, postMessage |-> TRUE, distinct |-> TRUE, target |-> TRUE,
     processSend |-> TRUE]

BareHost ==
    [window |-> FALSE, postMessage |-> FALSE, distinct |-> FALSE,
     target |-> TRUE, processSend |-> FALSE]

\* a top-level browser window that is its own parent / its own target
TopLevelHost ==
    [window |-> TRUE, postMessage |-> TRUE, distinct |-> FALSE, target |-> TRUE,
     processSend |-> FALSE]

\* no targetWindow / process was passed to the resolver-side transport
NoTargetHost ==
    [window |-> TRUE, postMessage |-> TRUE, distinct |-> TRUE, target |-> FALSE,
     processSend |-> TRUE]

Hosts == {ReadyHost, BareHost, TopLevelHost, NoTargetHost}

VARIABLES
    realization,      \* which subclass pair of RemoteHttpTransport is in use
    messagePrefix,    \* RemoteHttpTransport.messagePrefix, per transport
    sourceOrigin,     \* Iframe*Transport.sourceOrigin, per transport
    host,             \* the environment of each endpoint
    disposed,         \* RemoteHttpTransport.disposed
    subscriptions,    \* RemoteHttpTransport.subscriptions (ordered)
    messageHandlers,  \* RemoteHttpTransport.messageHandlers (insertion-ordered Set)
    wrappers,         \* every filtering wrapper addMessageListener created
    targetListeners,  \* 'message' listeners on the endpoint's window / process
    lifecycle,        \* once('error') / once('exit') listeners on the child process
    channel,          \* events in flight towards each endpoint
    calls,            \* RemoteHttpInterceptor: the intercepted calls, by requestId
    inbox,            \* RemoteHttpResolver: requests handed to the responder
    supplied,         \* history: the responses the responder supplied, by requestId
    applied,          \* what setup() of each role did: "new", "active", "inert"
    emitted,          \* history: requestIds of the 'response' events the resolver emitted
    cleanupLog,       \* history: subscription indexes dispose() invoked, in order
    lastOp            \* history: the last operation and what it did

configVars == <<realization, messagePrefix, sourceOrigin, host>>

transportVars == <<disposed, subscriptions, messageHandlers, wrappers,
                   targetListeners, lifecycle, cleanupLog>>

roleVars == <<calls, inbox, supplied, emitted, applied>>

vars == <<configVars, transportVars, roleVars, channel, lastOp>>

\* ------------------------------------------------------------ history record
NoEvent == [isString |-> TRUE, data |-> <<>>, source |-> "none",
            origin |-> "", from |-> "none"]

NoOp == [op |-> "none", t |-> "none", threw |-> FALSE,
         logged |-> FALSE, uncaught |-> FALSE, sent |-> FALSE, ret |-> FALSE,
         lid |-> 0, invoked |-> <<>>, reported |-> 0, caught |-> 0,
         rejected |-> 0, ev |-> NoEvent, msg |-> <<>>]

\* ------------------------------------------------------------ sending
\* What the channel primitive (postMessage, process.send, childProcess.send)
\* can do with one message: deliver it, drop it silently (a target origin that
\* does not match), throw synchronously, or report the failure later (the
\* callback of childProcess.send, an 'error' event for process.send).
PrimitiveOutcomes ==
    CASE realization = "iframe" -> {"ok", "drop", "throw"}
      [] realization = "process" -> {"ok", "throw", "asyncError"}
      [] OTHER -> {"ok"}

SendResult(sent, threw, logged, uncaught) ==
    [sent |-> sent, threw |-> threw, logged |-> logged, uncaught |-> uncaught]

\* IframeRemoteHttpInterceptorTransport.sendMessage
IframeInterceptorSendMessage(t, outcome) ==
    IF ~host[t].window THEN SendResult(FALSE, FALSE, TRUE, FALSE)
    ELSE IF outcome = "throw" THEN SendResult(FALSE, FALSE, TRUE, FALSE)
    ELSE SendResult(outcome = "ok", FALSE, FALSE, FALSE)

\* IframeRemoteHttpResolverTransport.sendMessage (without a target window the
\* call on it fails inside the try block)
IframeResolverSendMessage(t, outcome) ==
    IF ~host[t].target \/ outcome = "throw" THEN SendResult(FALSE, FALSE, TRUE, FALSE)
    ELSE SendResult(outcome = "ok", FALSE, FALSE, FALSE)

\* ChildProcessRemoteHttpInterceptorTransport.sendMessage: process.send is
\* called bare; a failure reported later is an 'error' event nobody listens to
ChildInterceptorSendMessage(t, outcome) ==
    IF ~host[t].processSend THEN SendResult(FALSE, FALSE, TRUE, FALSE)
    ELSE CASE outcome = "ok" -> SendResult(TRUE, FALSE, FALSE, FALSE)
           [] outcome = "throw" -> SendResult(FALSE, TRUE, FALSE, FALSE)
           [] OTHER -> SendResult(FALSE, FALSE, FALSE, TRUE)

\* ChildProcessRemoteHttpResolverTransport.sendMessage: only the callback's
\* error is logged (without a child process handle the call on it fails)
ChildResolverSendMessage(t, outcome) ==
    CASE ~host[t].target -> SendResult(FALSE, TRUE, FALSE, FALSE)
      [] outcome = "ok" -> SendResult(TRUE, FALSE, FALSE, FALSE)
      [] outcome = "throw" -> SendResult(FALSE, TRUE, FALSE, FALSE)
      [] OTHER -> SendResult(FALSE, FALSE, TRUE, FALSE)

\* RemoteHttpTransport.sendMessage (abstract), by subclass
SendMessage(t, outcome) ==
    CASE realization = "iframe" /\ t = "ti" -> IframeInterceptorSendMessage(t, outcome)
      [] realization = "iframe" /\ t = "tr" -> IframeResolverSendMessage(t, outcome)
      [] realization = "process" /\ t = "ti" -> ChildInterceptorSendMessage(t, outcome)
      [] realization = "process" /\ t = "tr" -> ChildResolverSendMessage(t, outcome)
      [] OTHER -> SendResult(TRUE, FALSE, FALSE, FALSE)

\* the event the peer endpoint receives for a raw string sent by t
SentEvent(t, raw) ==
    [isString |-> TRUE, data |-> raw, source |-> "peer", origin |-> Origin(t),
     from |-> t]

\* a framing that leaves out the colon
FramedNoColon(t, message) ==
    messagePrefix[t] \o message

\* `${this.messagePrefix}:${message}`
Framed(t, message) ==
    messagePrefix[t] \o Colon \o message

\* send without the check of the disposed flag
TransportSendUnguarded(t, outcome) ==
    SendMessage(t, outcome)

\* RemoteHttpTransport.send: the result of the call
TransportSend(t, outcome) ==
    IF disposed[t] THEN SendResult(FALSE, FALSE, TRUE, FALSE)
    ELSE SendMessage(t, outcome)

\* the channel after t.send(message)
ChannelAfterSend(ch, t, message, outcome) ==
    IF TransportSend(t, outcome).sent
    THEN [ch EXCEPT ![Peer(t)] = Append(@, SentEvent(t, Framed(t, message)))]
    ELSE ch

\* ------------------------------------------------------------ listeners
Without(seq, x) ==
    SelectSeq(seq, LAMBDA e : e # x)

\* an unsubscribe closure that removes nothing
RemoveListenerNothing(t, s, lid) ==
    s

\* The unsubscribe closure onMessage returned for wrapper lid, applied to the
\* listener tables s.tl (window / process 'message' listeners), s.lc (child
\* process lifecycle listeners) and s.mh (the handler registry):
\*   base class      messageHandlers.delete(handler)
\*   iframe          window.removeEventListener('message', ...)
\*   child, ti       process.removeListener('message', ...)
\*   child, tr       childProcess.removeListener of 'message', 'error', 'exit'
RemoveListener(t, s, lid) ==
    CASE realization = "custom" -> [s EXCEPT !.mh = Without(@, lid)]
      [] realization = "process" /\ t = "tr" ->
            [s EXCEPT !.tl = Without(@, lid), !.lc = @ \ {lid}]
      [] OTHER -> [s EXCEPT !.tl = Without(@, lid)]

\* What onMessage does for a new wrapper lid, on the same tables:
\*   base class      messageHandlers.add(handler)
\*   iframe, ti      window.addEventListener (a ReferenceError without window)
\*   iframe, tr      window.addEventListener, or nothing at all without window
\*   child, ti       process.addListener('message', ...)
\*   child, tr       childProcess.addListener('message'), once('error'), once('exit')
OnMessageThrows(t) ==
    \/ realization = "iframe" /\ t = "ti" /\ ~host[t].window
    \/ realization = "process" /\ t = "tr" /\ ~host[t].target

OnMessage(t, s, lid) ==
    CASE realization = "custom" -> [s EXCEPT !.mh = Append(@, lid)]
      [] realization = "iframe" /\ t = "tr" /\ ~host[t].window -> s
      [] realization = "process" /\ t = "tr" ->
            [s EXCEPT !.tl = Append(@, lid), !.lc = @ \cup {lid}]
      [] OTHER -> [s EXCEPT !.tl = Append(@, lid)]

\* a subscription-list entry: the unsubscribe closure of wrapper lid, or (a
\* subclass's addSubscription) a cleanup that calls dispose() on its transport
UnsubscribeEntry(lid) == [kind |-> "unsubscribe", lid |-> lid]

ReenterEntry == [kind |-> "reenter", lid |-> 0]

\* the listener tables of transport t as one record
Tables(t) ==
    [tl |-> targetListeners[t], lc |-> lifecycle[t], mh |-> messageHandlers[t]]

\* RemoteHttpTransport.addMessageListener(handler): the transport's state
\* after the call. h describes the user handler. ok: a wrapper was registered
\* and its unsubscribe returned; otherwise the inert unsubscribe was returned
\* (disposed) or onMessage threw.
AddListenerResult(t, h) ==
    LET lid == Len(wrappers) + 1 IN
    IF disposed[t]
    THEN [ok |-> FALSE, threw |-> FALSE, lid |-> 0, tables |-> Tables(t),
          wrappers |-> wrappers, subs |-> subscriptions[t]]
    ELSE IF OnMessageThrows(t)
    THEN [ok |-> FALSE, threw |-> TRUE, lid |-> 0, tables |-> Tables(t),
          wrappers |-> wrappers, subs |-> subscriptions[t]]
    ELSE [ok |-> TRUE, threw |-> FALSE, lid |-> lid,
          tables |-> OnMessage(t, Tables(t), lid),
          wrappers |-> Append(wrappers, [t |-> t, handler |-> h]),
          subs |-> Append(subscriptions[t], UnsubscribeEntry(lid))]

\* ------------------------------------------------------------ disposal
\* The loop of dispose(): `for (const unsubscribe of this.subscriptions)
\* unsubscribe()`, from index i of the array subs. s carries the listener
\* tables, the indexes invoked so far (log), the current call depth and
\* whether the call stack overflowed. `this.disposed = true` is only set after
\* the loop, so a cleanup that calls dispose() finds disposed still false and
\* starts the loop of a nested frame from the first entry.
RECURSIVE RunCleanups(_, _, _, _)
RunCleanups(t, subs, i, s) ==
    IF s.overflow \/ i > Len(subs) THEN s
    ELSE LET s1 == [s EXCEPT !.log = Append(@, i)] IN
         IF subs[i].kind = "unsubscribe"
         THEN RunCleanups(t, subs, i + 1, RemoveListener(t, s1, subs[i].lid))
         ELSE IF s.depth >= MaxStack
         THEN [s1 EXCEPT !.overflow = TRUE]
         ELSE LET n == RunCleanups(t, subs, 1, [s1 EXCEPT !.depth = @ + 1]) IN
              IF n.overflow THEN n
              ELSE RunCleanups(t, subs, i + 1, [n EXCEPT !.depth = s.depth])

\* dispose() without its guard and without emptying the subscription list
DisposeResultRerun(t) ==
    LET s0 == [tl |-> targetListeners[t], lc |-> lifecycle[t],
               mh |-> messageHandlers[t], log |-> cleanupLog[t],
               depth |-> 1, overflow |-> FALSE]
        r == RunCleanups(t, subscriptions[t], 1, s0)
    IN  [threw |-> r.overflow, skipped |-> FALSE, disposed |-> ~r.overflow,
         subs |-> subscriptions[t], log |-> r.log,
         tables |-> [tl |-> r.tl, lc |-> r.lc, mh |-> <<>>]]

\* dispose() with a loop that stops before the last subscription
DisposeResultSkipsLast(t) ==
    LET s0 == [tl |-> targetListeners[t], lc |-> lifecycle[t],
               mh |-> messageHandlers[t], log |-> cleanupLog[t],
               depth |-> 1, overflow |-> FALSE]
        r == RunCleanups(t, SubSeq(subscriptions[t], 1, Len(subscriptions[t]) - 1),
                         1, s0)
    IN  IF disposed[t]
        THEN [threw |-> FALSE, skipped |-> TRUE, disposed |-> disposed[t],
              subs |-> subscriptions[t], log |-> cleanupLog[t],
              tables |-> Tables(t)]
        ELSE [threw |-> FALSE, skipped |-> FALSE, disposed |-> TRUE,
              subs |-> <<>>, log |-> r.log,
              tables |-> [tl |-> r.tl, lc |-> r.lc, mh |-> <<>>]]

\* RemoteHttpTransport.dispose(): the transport's state after the call
DisposeResult(t) ==
    LET s0 == [tl |-> targetListeners[t], lc |-> lifecycle[t],
               mh |-> messageHandlers[t], log |-> cleanupLog[t],
               depth |-> 1, overflow |-> FALSE]
        r == RunCleanups(t, subscriptions[t], 1, s0)
    IN  IF disposed[t]
        THEN [threw |-> FALSE, skipped |-> TRUE, disposed |-> disposed[t],
              subs |-> subscriptions[t], log |-> cleanupLog[t],
              tables |-> Tables(t)]
        ELSE IF r.overflow
        THEN [threw |-> TRUE, skipped |-> FALSE, disposed |-> FALSE,
              subs |-> subscriptions[t], log |-> r.log,
              tables |-> [tl |-> r.tl, lc |-> r.lc, mh |-> r.mh]]
        ELSE [threw |-> FALSE, skipped |-> FALSE, disposed |-> TRUE,
              subs |-> <<>>, log |-> r.log,
              tables |-> [tl |-> r.tl, lc |-> r.lc, mh |-> <<>>]]

\* the transport variables after an operation left t with the given tables
SetTables(t, tables) ==
    /\ targetListeners' = [targetListeners EXCEPT ![t] = tables.tl]
    /\ lifecycle' = [lifecycle EXCEPT ![t] = tables.lc]
    /\ messageHandlers' = [messageHandlers EXCEPT ![t] = tables.mh]

ApplyDispose(t, r) ==
    /\ SetTables(t, r.tables)
    /\ disposed' = [disposed EXCEPT ![t] = r.disposed]
    /\ subscriptions' = [subscriptions EXCEPT ![t] = r.subs]
    /\ cleanupLog' = [cleanupLog EXCEPT ![t] = r.log]

\* ------------------------------------------------------------ transport actions
Payloads == { <<"m">>, <<"b", ":", "m">> }

UserHandler(throws) ==
    [role |-> "user", throws |-> throws, requestId |-> <<>>]

\* a caller invokes transport.send(message)
InFlight == Len(channel["ti"]) + Len(channel["tr"])

Send(t, message, outcome) ==
    /\ InFlight < MaxQueue
    /\ channel' = ChannelAfterSend(channel, t, message, outcome)
    /\ lastOp' = [NoOp EXCEPT !.op = "send", !.t = t, !.msg = message,
                    !.sent = TransportSend(t, outcome).sent,
                    !.threw = TransportSend(t, outcome).threw,
                    !.logged = TransportSend(t, outcome).logged,
                    !.uncaught = TransportSend(t, outcome).uncaught]
    /\ UNCHANGED <<configVars, transportVars, roleVars>>

\* a caller invokes transport.addMessageListener(handler)
AddMessageListener(t, h) ==
    /\ Len(wrappers) < MaxListeners
    /\ LET r == AddListenerResult(t, h) IN
        /\ SetTables(t, r.tables)
        /\ wrappers' = r.wrappers
        /\ subscriptions' = [subscriptions EXCEPT ![t] = r.subs]
        /\ lastOp' = [NoOp EXCEPT !.op = "addMessageListener", !.t = t,
                        !.ret = r.ok, !.threw = r.threw, !.lid = r.lid]
    /\ UNCHANGED <<configVars, roleVars, disposed, cleanupLog, channel>>

\* an unsubscribe function that also takes its entry off the subscription list
UnsubscribeDropsEntry(lid) ==
    /\ lid \in 1..Len(wrappers)
    /\ SetTables(wrappers[lid].t,
                 RemoveListener(wrappers[lid].t, Tables(wrappers[lid].t), lid))
    /\ subscriptions' = [subscriptions EXCEPT ![wrappers[lid].t] =
                             Without(@, UnsubscribeEntry(lid))]
    /\ lastOp' = [NoOp EXCEPT !.op = "unsubscribe", !.t = wrappers[lid].t,
                    !.lid = lid]
    /\ UNCHANGED <<configVars, roleVars, disposed, wrappers, cleanupLog, channel>>

\* a caller invokes the unsubscribe function addMessageListener returned
Unsubscribe(lid) ==
    /\ lid \in 1..Len(wrappers)
    /\ SetTables(wrappers[lid].t,
                 RemoveListener(wrappers[lid].t, Tables(wrappers[lid].t), lid))
    /\ lastOp' = [NoOp EXCEPT !.op = "unsubscribe", !.t = wrappers[lid].t,
                    !.lid = lid]
    /\ UNCHANGED <<configVars, roleVars, disposed, subscriptions, wrappers,
                   cleanupLog, channel>>

\* a subclass registers, with addSubscription, a cleanup that calls dispose()
AddSubscription(t) ==
    /\ Len(SelectSeq(subscriptions[t], LAMBDA e : e = ReenterEntry)) < MaxReenter
    /\ subscriptions' = [subscriptions EXCEPT ![t] = Append(@, ReenterEntry)]
    /\ lastOp' = [NoOp EXCEPT !.op = "addSubscription", !.t = t]
    /\ UNCHANGED <<configVars, roleVars, disposed, messageHandlers, wrappers,
                   targetListeners, lifecycle, cleanupLog, channel>>

\* a caller invokes transport.dispose()
Dispose(t) ==
    /\ ApplyDispose(t, DisposeResult(t))
    /\ lastOp' = [NoOp EXCEPT !.op = "dispose", !.t = t,
                    !.threw = DisposeResult(t).threw,
                    !.logged = DisposeResult(t).skipped]
    /\ UNCHANGED <<configVars, roleVars, wrappers, channel>>

\* ------------------------------------------------------------ wire format
RequestIds == { <<"r", "1">>, <<"r", "1", "0">>, <<"r", "2">> }

Null == "null"

Quoted(text) == "\"" \o text \o "\""

\* JSON.stringify of an array of [name, value] pairs
RECURSIVE SerializePairs(_)
SerializePairs(hs) ==
    IF hs = <<>> THEN <<>>
    ELSE <<"[", Quoted(hs[1][1]), ",", Quoted(hs[1][2]), "]">>
         \o (IF Len(hs) > 1 THEN <<",">> ELSE <<>>)
         \o SerializePairs(Tail(hs))

\* JSON.stringify of a SerializedResponse
SerializeResponse(r) ==
    <<"{", Quoted("status"), ":", r.status, ",",
      Quoted("statusText"), ":", Quoted(r.statusText), ",",
      Quoted("headers"), ":", "[">> \o SerializePairs(r.headers) \o
    <<"]", ",", Quoted("body"), ":", Quoted(r.body), "}">>

\* JSON.stringify of a SerializedRequest
SerializeRequest(r) ==
    <<"{", Quoted("id"), ":", "\"">> \o r.id \o
    <<"\"", ",", Quoted("method"), ":", Quoted(r.method), ",",
      Quoted("url"), ":", "\"">> \o r.url \o
    <<"\"", ",", Quoted("headers"), ":", "[">> \o SerializePairs(r.headers) \o
    <<"]", ",", Quoted("credentials"), ":", Quoted(r.credentials), ",",
      Quoted("body"), ":", IF r.body = Null THEN "null" ELSE Quoted(r.body),
      "}">>

\* the requests the interception layer hands over: method, url, header
\* entries, credentials mode and the text request.text() yields
Intercepted ==
    { [method |-> "GET", url |-> <<"https", ":", "//x/">>, headers |-> <<>>,
       credentials |-> "same-origin", text |-> ""],
      [method |-> "POST", url |-> <<"https", ":", "//x/">>,
       headers |-> << <<"content-type", "text/plain">> >>,
       credentials |-> "omit", text |-> "payload"] }

\* the SerializedRequest the interceptor builds for an intercepted request
SerializedRequestOf(id, q) ==
    [id |-> id, method |-> q.method, url |-> q.url, headers |-> q.headers,
     credentials |-> q.credentials,
     body |-> IF q.method \in {"GET", "HEAD"} THEN Null ELSE q.text]

\* A body text with a raw U+2028 LINE SEPARATOR in it. JSON.stringify leaves
\* U+2028 and U+2029 as they are (it escapes the control characters, the
\* quote and the backslash).
LineSeparated == { "one<U+2028>two" }

\* more request shapes: two header entries in the order headers.entries()
\* yields them (sorted by name), a HEAD request, a body of several lines
RoundTripRequests ==
    { [method |-> "HEAD", url |-> <<"https", ":", "//x/a?b=1">>,
       headers |-> << <<"accept", "*/*">> >>,
       credentials |-> "include", text |-> ""],
      [method |-> "PUT", url |-> <<"https", ":", "//x/">>,
       headers |-> << <<"accept", "*/*">>, <<"content-type", "text/plain">> >>,
       credentials |-> "same-origin", text |-> ""],
      [method |-> "POST", url |-> <<"https", ":", "//x/">>,
       headers |-> << <<"content-type", "text/plain">> >>,
       credentials |-> "same-origin", text |-> "one<U+2028>two"] }

RequestRecords ==
    { SerializedRequestOf(id, q) :
        id \in RequestIds, q \in Intercepted \cup RoundTripRequests }

\* the responses a responder may hand to controller.respondWith
MockedResponses ==
    { [status |-> "200", statusText |-> "OK", headers |-> <<>>,
       body |-> "hello"],
      [status |-> "404", statusText |-> "Not Found",
       headers |-> << <<"content-encoding", "gzip">>, <<"x-a", "1">> >>,
       body |-> "bye"] }

\* response.headers.delete('content-encoding'), then the SerializedResponse
SerializedResponseOf(resp) ==
    [status |-> resp.status, statusText |-> resp.statusText,
     headers |-> SelectSeq(resp.headers, LAMBDA h : h[1] # "content-encoding"),
     body |-> resp.body]

ResponseRecords == { SerializedResponseOf(resp) : resp \in MockedResponses }

\* JSON.parse: the value whose JSON text this is; it throws on any other text
IsResponseJson(text) == \E r \in ResponseRecords : SerializeResponse(r) = text

ParseResponse(text) == CHOOSE r \in ResponseRecords : SerializeResponse(r) = text

IsRequestJson(text) == \E r \in RequestRecords : SerializeRequest(r) = text

ParseRequest(text) == CHOOSE r \in RequestRecords : SerializeRequest(r) = text

\* new URL(value): the parsed URL, and the href it serializes to
NewURL(value) == [scheme |-> value[1], rest |-> value[3]]

Href(url) == <<url.scheme, ":", url.rest>>

\* the position of a header name in the order a Headers object iterates in
HeaderNames == <<"accept", "content-encoding", "content-type", "x-a">>

HeaderRank(name) == CHOOSE i \in 1..Len(HeaderNames) : HeaderNames[i] = name

\* new Headers(pairs): the entries, as the object yields them (sorted by name)
RECURSIVE NewHeaders(_)
NewHeaders(pairs) ==
    IF pairs = <<>> THEN <<>>
    ELSE LET rest == NewHeaders(Tail(pairs))
             before == SelectSeq(rest,
                          LAMBDA h : HeaderRank(h[1]) < HeaderRank(Head(pairs)[1]))
             after == SelectSeq(rest,
                          LAMBDA h : HeaderRank(h[1]) >= HeaderRank(Head(pairs)[1]))
         IN  before \o <<Head(pairs)>> \o after

\* requestReviver applied by JSON.parse to the parsed record
RequestReviver(r) ==
    [r EXCEPT !.url = NewURL(@), !.headers = NewHeaders(@)]

\* new Request(requestJson.url, {method, headers, credentials, body}), kept
\* with the id of requestJson
NewRequest(requestJson) ==
    [id |-> requestJson.id, method |-> requestJson.method,
     url |-> Href(requestJson.url), headers |-> NewHeaders(requestJson.headers),
     credentials |-> requestJson.credentials, body |-> requestJson.body]

\* `.` of a regular expression matches no line terminator: the rest of the
\* message is matched by `.+$` only when none of its parts holds one
DotPlus(rest) ==
    /\ rest # <<>>
    /\ \A i \in 1..Len(rest) : rest[i] \notin { Quoted(text) : text \in LineSeparated }

\* `request:${serializedRequest}`
RequestEnvelope(r) == <<"request", ":">> \o SerializeRequest(r)

\* `response:${requestJson.id}:${serializedResponse}`
ResponseEnvelope(id, json) == <<"response", ":">> \o id \o Colon \o json

\* message.match(/^response:.+?:(.+)$/): the capture, <<>> when there is no
\* match. The lazy `.+?` stops at the first ":" that leaves a non-empty rest.
ResponseCapture(m) ==
    LET cut == { p \in 4..(Len(m) - 1) : m[p] = ":" } IN
    IF StartsWith(m, <<"response", ":">>) /\ cut # {} /\ DotPlus(Substring(m, 2))
    THEN SubSeq(m, (CHOOSE p \in cut : \A q \in cut : p <= q) + 1, Len(m))
    ELSE <<>>

\* message.match(/^request:(.+)$/): the capture, <<>> when there is no match
RequestCapture(m) ==
    IF StartsWith(m, <<"request", ":">>) /\ DotPlus(Substring(m, 2))
    THEN Substring(m, 2)
    ELSE <<>>

\* ------------------------------------------------------------ handlers
\* Handlers run against the dispatch state d: the listener tables of the
\* receiving transport (tl, lc, mh), the roles' state (calls, inbox) and the
\* record of what this dispatch did (invoked, reported, uncaught, rejected).
Ran(d, threw) == [d |-> d, threw |-> threw]

IdleCall == [state |-> "idle", lid |-> 0, resolves |-> 0, responses |-> <<>>]

\* resolve() of the promise the 'request' listener returned for requestId id
Resolve(d, id) ==
    [d EXCEPT !.calls[id].resolves = @ + 1,
              !.calls[id].state = IF @ = "suspended" THEN "resumed" ELSE @]

\* new FetchResponse(responseInit.body, {url, status, statusText, headers})
FetchResponse(init) ==
    [status |-> init.status, statusText |-> init.statusText,
     headers |-> init.headers, body |-> init.body]

\* RemoteHttpInterceptor: the per-request listener given to addMessageListener
InterceptorListener(t, lid, id, message, d) ==
    IF ~StartsWith(message, <<"response", ":">> \o id) THEN Ran(d, FALSE)
    ELSE LET serializedResponse == ResponseCapture(message) IN
         IF serializedResponse = <<>> THEN Ran(Resolve(d, id), FALSE)
         ELSE IF ~IsResponseJson(serializedResponse) THEN Ran(d, TRUE)
         ELSE LET mocked == FetchResponse(ParseResponse(serializedResponse))
                  responded == [d EXCEPT !.calls[id].responses = Append(@, mocked)]
              IN  Ran(Resolve(RemoveListener(t, responded, lid), id), FALSE)

\* a resolver listener that takes the text after the first colon of any
\* message for a serialized request
ResolverListenerAnyTag(message, d) ==
    LET serializedRequest == Substring(message, 2) IN
    IF serializedRequest = <<>> THEN Ran(d, FALSE)
    ELSE IF ~IsRequestJson(serializedRequest)
    THEN Ran([d EXCEPT !.rejected = @ + 1], FALSE)
    ELSE LET requestJson == RequestReviver(ParseRequest(serializedRequest))
         IN  Ran([d EXCEPT !.inbox = @ \cup {NewRequest(requestJson)}], FALSE)

\* RemoteHttpResolver: the listener given to addMessageListener. It is an
\* async function: a failure in it rejects its promise and is not thrown at
\* the caller.
ResolverListener(message, d) ==
    IF ~StartsWith(message, <<"request", ":">>) THEN Ran(d, FALSE)
    ELSE LET serializedRequest == RequestCapture(message) IN
         IF serializedRequest = <<>> THEN Ran(d, FALSE)
         ELSE IF ~IsRequestJson(serializedRequest)
         THEN Ran([d EXCEPT !.rejected = @ + 1], FALSE)
         ELSE LET requestJson == RequestReviver(ParseRequest(serializedRequest))
              IN  Ran([d EXCEPT !.inbox = @ \cup {NewRequest(requestJson)}], FALSE)

\* a handler given to addMessageListener, called with the stripped message
RunHandler(t, lid, message, d) ==
    LET h == wrappers[lid].handler
        seen == [d EXCEPT !.invoked = Append(@, [lid |-> lid, msg |-> message])]
    IN  CASE h.role = "user" -> Ran(seen, h.throws)
          [] h.role = "pending" -> InterceptorListener(t, lid, h.requestId, message, seen)
          [] OTHER -> ResolverListener(message, seen)

\* the prefix test without the colon after the prefix
StartsWithPrefixOnly(t, message) ==
    StartsWith(message, messagePrefix[t])

\* RemoteHttpTransport.isTransportMessage
IsTransportMessage(t, message) ==
    StartsWith(message, messagePrefix[t] \o Colon)

\* the filtering wrapper addMessageListener hands to onMessage; a value that
\* is no string has no startsWith method
Wrapper(t, lid, ev, d) ==
    IF ~ev.isString THEN Ran(d, TRUE)
    ELSE IF ~IsTransportMessage(t, ev.data) THEN Ran(d, FALSE)
    ELSE RunHandler(t, lid, Substring(ev.data, Len(messagePrefix[t]) + 1), d)

\* IframeRemoteHttpInterceptorTransport.onMessage: messageListener
IframeInterceptorListener(t, lid, ev, d) ==
    IF sourceOrigin[t] # "" /\ ev.origin # sourceOrigin[t] THEN Ran(d, FALSE)
    ELSE IF ~ev.isString THEN Ran(d, FALSE)
    ELSE IF ev.source # "peer" THEN Ran(d, FALSE)
    ELSE Wrapper(t, lid, ev, d)

\* IframeRemoteHttpResolverTransport.onMessage: messageListener
IframeResolverListener(t, lid, ev, d) ==
    IF sourceOrigin[t] # "" /\ ev.origin # sourceOrigin[t] THEN Ran(d, FALSE)
    ELSE IF ev.source # "peer" THEN Ran(d, FALSE)
    ELSE Wrapper(t, lid, ev, d)

\* ChildProcess*Transport.onMessage: messageListener (both sides)
ChildListener(t, lid, ev, d) ==
    IF ev.isString THEN Wrapper(t, lid, ev, d) ELSE Ran(d, FALSE)

MessageListener(t, lid, ev, d) ==
    CASE realization = "iframe" /\ t = "ti" -> IframeInterceptorListener(t, lid, ev, d)
      [] realization = "iframe" /\ t = "tr" -> IframeResolverListener(t, lid, ev, d)
      [] OTHER -> ChildListener(t, lid, ev, d)

\* ------------------------------------------------------------ dispatch
\* window 'message' event: the EventTarget calls every listener in the order
\* of registration; an exception in one is reported and the next still runs
RECURSIVE WindowDispatch(_, _, _, _)
WindowDispatch(t, ls, ev, d) ==
    IF ls = <<>> THEN d
    ELSE LET r == MessageListener(t, Head(ls), ev, d) IN
         WindowDispatch(t, Tail(ls), ev,
                        IF r.threw THEN [r.d EXCEPT !.reported = @ + 1] ELSE r.d)

\* process / childProcess 'message' event: EventEmitter.emit calls the
\* listeners in the order of registration; an exception in one leaves emit
\* at once, uncaught
RECURSIVE EmitterDispatch(_, _, _, _)
EmitterDispatch(t, ls, ev, d) ==
    IF ls = <<>> THEN d
    ELSE LET r == MessageListener(t, Head(ls), ev, d) IN
         IF r.threw THEN [r.d EXCEPT !.uncaught = TRUE]
         ELSE EmitterDispatch(t, Tail(ls), ev, r.d)

\* RemoteHttpTransport.handleMessage: messageHandlers.forEach with try / catch
RECURSIVE FanOut(_, _, _, _)
FanOut(t, hs, ev, d) ==
    IF hs = <<>> THEN d
    ELSE LET r == Wrapper(t, Head(hs), ev, d) IN
         FanOut(t, Tail(hs), ev,
                IF r.threw THEN [r.d EXCEPT !.caught = @ + 1] ELSE r.d)

HandleMessageReturn(t, message) ==
    IsTransportMessage(t, message)

HandleMessage(t, ev, d) ==
    IF ~HandleMessageReturn(t, ev.data) THEN d
    ELSE FanOut(t, d.mh, ev, d)

DispatchStart(t) ==
    [tl |-> targetListeners[t], lc |-> lifecycle[t], mh |-> messageHandlers[t],
     calls |-> calls, inbox |-> inbox, invoked |-> <<>>, reported |-> 0,
     caught |-> 0, uncaught |-> FALSE, rejected |-> 0]

\* an event arriving at the endpoint of transport t
Dispatch(t, ev) ==
    CASE realization = "iframe" -> WindowDispatch(t, targetListeners[t], ev, DispatchStart(t))
      [] realization = "process" -> EmitterDispatch(t, targetListeners[t], ev, DispatchStart(t))
      [] OTHER -> HandleMessage(t, ev, DispatchStart(t))

ApplyDispatch(t, ev, d, op) ==
    /\ SetTables(t, d)
    /\ calls' = d.calls
    /\ inbox' = d.inbox
    /\ lastOp' = [NoOp EXCEPT !.op = op, !.t = t, !.ev = ev,
                    !.invoked = d.invoked, !.reported = d.reported,
                    !.caught = d.caught, !.uncaught = d.uncaught,
                    !.rejected = d.rejected,
                    !.ret = ev.isString /\ HandleMessageReturn(t, ev.data)]
    /\ UNCHANGED <<configVars, disposed, subscriptions, wrappers, cleanupLog,
                   supplied, emitted, applied>>

\* the channel delivers the oldest event in flight towards t
Deliver(t) ==
    /\ channel[t] # <<>>
    /\ channel' = [channel EXCEPT ![t] = Tail(@)]
    /\ ApplyDispatch(t, Head(channel[t]), Dispatch(t, Head(channel[t])), "deliver")

\* traffic that no transport of this pair sent: strings with another prefix,
\* with none, with the prefix but not its colon, well-framed ones and, where
\* the medium carries them, values that are no strings, messages of another
\* origin and messages of another window
ForeignTraffic(t) ==
    LET peer == [isString |-> TRUE, data |-> <<>>, source |-> "peer",
                 origin |-> Origin(Peer(t)), from |-> "env"]
    IN  { [peer EXCEPT !.data = <<"x", ":", "m">>],
          [peer EXCEPT !.data = <<"m">>],
          [peer EXCEPT !.data = messagePrefix[t] \o <<"m">>],
          [peer EXCEPT !.data = Framed(t, <<"m">>)] }
        \cup (IF realization = "custom" THEN {}
              ELSE { [peer EXCEPT !.isString = FALSE] })
        \cup (IF realization # "iframe" THEN {}
              ELSE { [peer EXCEPT !.data = Framed(t, <<"m">>), !.origin = "ox"],
                     [peer EXCEPT !.data = Framed(t, <<"m">>), !.source = "other"] })

\* the well-framed message and the one with another prefix
PlainTraffic(t) ==
    { ev \in ForeignTraffic(t) :
        /\ ev.isString /\ ev.source = "peer" /\ ev.origin = Origin(Peer(t))
        /\ ev.data \in { <<"x", ":", "m">>, Framed(t, <<"m">>) } }

\* an event of the environment arrives at the endpoint of t and is dispatched
\* (a "custom" transport is fed by an integrator calling handleMessage)
Receive(t, ev) ==
    /\ ApplyDispatch(t, ev, Dispatch(t, ev), "receive")
    /\ UNCHANGED channel

\* the child process of the resolver-side transport reports 'error' or
\* 'exit': every once-listener calls dispose(); what dispose() throws leaves
\* the emitter uncaught
PeerExit ==
    /\ realization = "process"
    /\ lifecycle["tr"] # {}
    /\ ApplyDispose("tr", DisposeResult("tr"))
    /\ lastOp' = [NoOp EXCEPT !.op = "peerExit", !.t = "tr",
                    !.uncaught = DisposeResult("tr").threw]
    /\ UNCHANGED <<configVars, roleVars, wrappers, channel>>

\* ------------------------------------------------------------ construction
\* everything but the configuration, as the constructors leave it; no role
\* has been set up
Constructed ==
    /\ disposed = [t \in Transports |-> FALSE]
    /\ subscriptions = [t \in Transports |-> <<>>]
    /\ messageHandlers = [t \in Transports |-> <<>>]
    /\ wrappers = <<>>
    /\ targetListeners = [t \in Transports |-> <<>>]
    /\ lifecycle = [t \in Transports |-> {}]
    /\ channel = [t \in Transports |-> <<>>]
    /\ cleanupLog = [t \in Transports |-> <<>>]
    /\ calls = [id \in RequestIds |-> IdleCall]
    /\ inbox = {}
    /\ supplied = [id \in RequestIds |-> <<>>]
    /\ emitted = <<>>
    /\ applied = [interceptor |-> "new", resolver |-> "new"]
    /\ lastOp = NoOp

\* new XTransport({messagePrefix}) on both sides, in a usable environment
Configured(pp) ==
    /\ messagePrefix = [t \in Transports |->
                            EffectivePrefix(IF t = "ti" THEN pp[1] ELSE pp[2])]
    /\ sourceOrigin = [t \in Transports |-> ""]
    /\ host = [t \in Transports |-> ReadyHost]

\* ------------------------------------------------------------ the transport alone
\* Life cycle of a transport pair with the default prefix, over each medium:
\* callers add and remove listeners (all on one side in a run), send, dispose;
\* the channel delivers; the environment sends traffic of its own.
TransportInit ==
    /\ realization \in Realizations
    /\ Configured(<< <<>>, <<>> >>)
    /\ Constructed

TransportNext ==
    \/ \E t \in Transports, m \in Payloads, o \in PrimitiveOutcomes : Send(t, m, o)
    \/ \E t \in Transports, throws \in BOOLEAN :
            /\ \A i \in 1..Len(wrappers) : wrappers[i].t = t
            /\ AddMessageListener(t, UserHandler(throws))
    \/ \E lid \in 1..MaxListeners : Unsubscribe(lid)
    \/ \E t \in Transports : Dispose(t)
    \/ \E t \in Transports : Deliver(t)
    \/ \E t \in Transports : \E ev \in PlainTraffic(t) : Receive(t, ev)
    \/ PeerExit

TransportSpec == TransportInit /\ [][TransportNext]_vars

\* ------------------------------------------------------------ prefixes
\* Two transports on one channel under every pair of configured prefixes:
\* listeners are added, messages sent, delivered and received.
PrefixInit ==
    /\ realization \in Realizations
    /\ \E pp \in PrefixPairs : Configured(pp)
    /\ Constructed

PrefixNext ==
    \/ \E t \in Transports, m \in Payloads, o \in PrimitiveOutcomes : Send(t, m, o)
    \/ \E t \in Transports, throws \in BOOLEAN :
            /\ \A i \in 1..Len(wrappers) : wrappers[i].t = t
            /\ AddMessageListener(t, UserHandler(throws))
    \/ \E t \in Transports : Deliver(t)
    \/ \E t \in Transports : \E ev \in ForeignTraffic(t) : Receive(t, ev)

PrefixSpec == PrefixInit /\ [][PrefixNext]_vars

\* ------------------------------------------------------------ the two roles
\* an isAvailable() that only looks for a window with postMessage, or for
\* process.send
IsAvailableEndpointOnly(t) ==
    CASE realization = "iframe" -> host[t].window /\ host[t].postMessage
      [] realization = "process" -> host[t].processSend
      [] OTHER -> TRUE

\* isAvailable() of each subclass (a subclass of another medium is taken to
\* be available)
IsAvailable(t) ==
    CASE realization = "iframe" /\ t = "ti" ->
            host[t].window /\ host[t].postMessage /\ host[t].distinct
      [] realization = "iframe" /\ t = "tr" ->
            host[t].window /\ host[t].postMessage /\ host[t].target /\ host[t].distinct
      [] realization = "process" /\ t = "ti" -> host[t].processSend
      [] realization = "process" /\ t = "tr" -> host[t].target
      [] OTHER -> TRUE

\* the listener the interceptor registers for one intercepted request
PendingHandler(id) ==
    [role |-> "pending", throws |-> FALSE, requestId |-> id]

\* the listener the resolver registers in setup()
ResolverHandler ==
    [role |-> "resolver", throws |-> FALSE, requestId |-> <<>>]

\* RemoteHttpInterceptor.setup(): with an available transport the 'request'
\* listener is installed
SetupInterceptor ==
    /\ applied.interceptor = "new"
    /\ applied' = [applied EXCEPT !.interceptor =
                        IF IsAvailable("ti") THEN "active" ELSE "inert"]
    /\ lastOp' = [NoOp EXCEPT !.op = "setupInterceptor", !.t = "ti",
                    !.ret = IsAvailable("ti")]
    /\ UNCHANGED <<configVars, transportVars, calls, inbox, supplied, emitted,
                   channel>>

\* a resolver setup() without the isAvailable() check
SetupResolverUnchecked ==
    /\ applied.resolver = "new"
    /\ LET r == AddListenerResult("tr", ResolverHandler) IN
             /\ applied' = [applied EXCEPT !.resolver = "active"]
             /\ SetTables("tr", r.tables)
             /\ wrappers' = r.wrappers
             /\ subscriptions' = [subscriptions EXCEPT !["tr"] = r.subs]
             /\ lastOp' = [NoOp EXCEPT !.op = "setupResolver", !.t = "tr",
                             !.ret = TRUE, !.lid = r.lid]
    /\ UNCHANGED <<configVars, disposed, cleanupLog, calls, inbox, supplied,
                   emitted, channel>>

\* RemoteHttpResolver.setup(): with an available transport the listener for
\* request envelopes is registered
SetupResolver ==
    /\ applied.resolver = "new"
    /\ LET r == AddListenerResult("tr", ResolverHandler) IN
        IF IsAvailable("tr")
        THEN /\ applied' = [applied EXCEPT !.resolver = "active"]
             /\ SetTables("tr", r.tables)
             /\ wrappers' = r.wrappers
             /\ subscriptions' = [subscriptions EXCEPT !["tr"] = r.subs]
             /\ lastOp' = [NoOp EXCEPT !.op = "setupResolver", !.t = "tr",
                             !.ret = TRUE, !.lid = r.lid]
        ELSE /\ applied' = [applied EXCEPT !.resolver = "inert"]
             /\ lastOp' = [NoOp EXCEPT !.op = "setupResolver", !.t = "tr"]
             /\ UNCHANGED <<subscriptions, messageHandlers, wrappers,
                            targetListeners, lifecycle>>
    /\ UNCHANGED <<configVars, disposed, cleanupLog, calls, inbox, supplied,
                   emitted, channel>>

\* The 'request' listener of the interceptor, for the intercepted request q
\* with identifier id: the envelope is sent, then the temporary listener is
\* registered and the call stays suspended on the returned promise. A send
\* that throws rejects the listener's promise before anything is registered.
Intercept(id, q, outcome) ==
    LET sent == TransportSend("ti", outcome)
        r == AddListenerResult("ti", PendingHandler(id))
    IN  /\ applied.interceptor = "active"
        /\ calls[id].state = "idle"
        /\ Cardinality({ x \in RequestIds : calls[x].state # "idle" }) < MaxRequests
        /\ InFlight < MaxQueue
        /\ channel' = ChannelAfterSend(channel, "ti",
                          RequestEnvelope(SerializedRequestOf(id, q)), outcome)
        /\ IF sent.threw \/ r.threw
           THEN /\ calls' = [calls EXCEPT ![id].state = "failed"]
                /\ UNCHANGED <<subscriptions, messageHandlers, wrappers,
                               targetListeners, lifecycle>>
           ELSE /\ calls' = [calls EXCEPT ![id].state = "suspended",
                                          ![id].lid = r.lid]
                /\ SetTables("ti", r.tables)
                /\ wrappers' = r.wrappers
                /\ subscriptions' = [subscriptions EXCEPT !["ti"] = r.subs]
        /\ lastOp' = [NoOp EXCEPT !.op = "intercept", !.t = "ti",
                        !.sent = sent.sent, !.threw = sent.threw \/ r.threw,
                        !.logged = sent.logged, !.uncaught = sent.uncaught,
                        !.lid = IF sent.threw THEN 0 ELSE r.lid]
        /\ UNCHANGED <<configVars, disposed, cleanupLog, inbox, supplied,
                       emitted, applied>>

\* Response.error(): the network-error response (type "error", status 0)
NetworkError ==
    [status |-> "0", statusText |-> "", headers |-> <<>>, body |-> ""]

\* a test that takes no response for a network error
IsResponseErrorNever(resp) == FALSE

\* isResponseError(response)
IsResponseError(resp) == resp.status = "0"

\* a respondWith that tags the envelope with another identifier than the one
\* of the request it answers
RespondEnvelopeMistagged(id, resp) ==
    ResponseEnvelope(CHOOSE x \in RequestIds : x # id,
                     SerializeResponse(SerializedResponseOf(resp)))

\* the message respondWith passes to transport.send for the request with
\* identifier id
RespondEnvelope(id, resp) ==
    ResponseEnvelope(id, SerializeResponse(SerializedResponseOf(resp)))

\* controller.respondWith(resp) of the resolver, called by the responder for
\* a request it was handed: a network-error response throws 'Not
\* implemented'; otherwise the response envelope is passed to transport.send
\* (lastOp.ev: the event that send makes of it), then the 'response' event is
\* emitted
Respond(req, resp, outcome) ==
    LET sent == TransportSend("tr", outcome)
        envelope == RespondEnvelope(req.id, resp)
    IN
    /\ req \in inbox
    /\ supplied[req.id] = <<>>
    /\ InFlight < MaxQueue
    /\ supplied' = [supplied EXCEPT ![req.id] = Append(@, resp)]
    /\ IF IsResponseError(resp)
       THEN /\ lastOp' = [NoOp EXCEPT !.op = "respondWith", !.t = "tr",
                            !.threw = TRUE]
            /\ UNCHANGED <<channel, emitted>>
       ELSE /\ channel' = ChannelAfterSend(channel, "tr", envelope, outcome)
            /\ emitted' = IF sent.threw THEN emitted ELSE Append(emitted, req.id)
            /\ lastOp' = [NoOp EXCEPT !.op = "respondWith", !.t = "tr",
                            !.sent = sent.sent, !.threw = sent.threw,
                            !.logged = sent.logged, !.uncaught = sent.uncaught,
                            !.ev = SentEvent("tr", Framed("tr", envelope))]
    /\ UNCHANGED <<configVars, transportVars, calls, inbox, applied>>

\* controller.errorWith(reason) of the resolver, called by the responder for
\* a request it was handed: 'Not implemented' is thrown
ErrorWith(req) ==
    /\ req \in inbox
    /\ supplied[req.id] = <<>>
    /\ lastOp' = [NoOp EXCEPT !.op = "errorWith", !.t = "tr", !.threw = TRUE]
    /\ UNCHANGED <<configVars, transportVars, roleVars, channel>>

\* what the history keeps for a request the responder passed through
PassedThrough == [status |-> "passthrough", statusText |-> "", headers |-> <<>>,
                  body |-> ""]

\* controller.passthrough() of the resolver, called by the responder for a
\* request it was handed: the function body is empty
Passthrough(req) ==
    /\ req \in inbox
    /\ supplied[req.id] = <<>>
    /\ supplied' = [supplied EXCEPT ![req.id] = Append(@, PassedThrough)]
    /\ lastOp' = [NoOp EXCEPT !.op = "passthrough", !.t = "tr"]
    /\ UNCHANGED <<configVars, transportVars, calls, inbox, emitted, applied,
                   channel>>

\* well-framed traffic that is no envelope of the protocol: towards the
\* interceptor, for a request it intercepted, a 'response:<id>' without
\* payload and one whose payload is no JSON; towards the resolver a
\* 'request:' whose payload is no JSON
ProtocolNoise(t) ==
    LET peer == [isString |-> TRUE, data |-> <<>>, source |-> "peer",
                 origin |-> Origin(Peer(t)), from |-> "env"]
    IN  IF t = "tr"
        THEN { [peer EXCEPT !.data = Framed(t, <<"request", ":", "oops">>)] }
        ELSE { [peer EXCEPT !.data = Framed(t, <<"response", ":">> \o id)] :
                    id \in { x \in RequestIds : calls[x].state # "idle" } }
             \cup { [peer EXCEPT !.data = Framed(t, ResponseEnvelope(id, <<"oops">>))] :
                    id \in { x \in RequestIds : calls[x].state # "idle" } }

\* ------------------------------------------------------------ the protocol
\* Both roles over one transport pair with the default prefix, on each
\* medium: the roles are set up, requests are intercepted, the channel
\* delivers, the responder answers, malformed envelopes arrive.
Init ==
    /\ realization \in Realizations
    /\ Configured(<< <<>>, <<>> >>)
    /\ Constructed

Next ==
    \/ SetupInterceptor
    \/ SetupResolver
    \/ \E id \in RequestIds, q \in Intercepted, o \in PrimitiveOutcomes :
            Intercept(id, q, o)
    \/ \E req \in inbox, resp \in MockedResponses, o \in PrimitiveOutcomes :
            Respond(req, resp, o)
    \/ \E t \in Transports : Deliver(t)
    \/ \E t \in Transports : \E ev \in ProtocolNoise(t) :
            /\ \A id \in RequestIds : calls[id].resolves < MaxResolves
            /\ Receive(t, ev)

Spec == Init /\ [][Next]_vars

\* ------------------------------------------------------------ properties of the transport
\* C3: once dispose() has completed on a transport it stays disposed and has
\* no listener and no subscription left; a later send puts nothing on the
\* channel, a later addMessageListener registers nothing and returns the inert
\* unsubscribe, and no handler runs for a message that arrives later.
C3_DisposedStaysInert ==
    [][\A t \in Transports : disposed[t] =>
          /\ disposed'[t]
          /\ targetListeners'[t] = <<>> /\ messageHandlers'[t] = <<>>
          /\ lifecycle'[t] = {} /\ subscriptions'[t] = <<>>
          /\ lastOp'.t = t =>
                /\ lastOp'.op = "send" => ~lastOp'.sent /\ channel' = channel
                /\ lastOp'.op = "addMessageListener" =>
                      ~lastOp'.ret /\ lastOp'.lid = 0 /\ wrappers' = wrappers
                /\ lastOp'.op \in {"deliver", "receive"} => lastOp'.invoked = <<>>
      ]_vars

\* a well-framed message of the peer is delivered to a disposed transport
\* that had a listener
C3_DeliveredAfterDispose ==
    /\ lastOp.op = "deliver" /\ lastOp.ret
    /\ disposed[lastOp.t]
    /\ \E i \in 1..Len(wrappers) : wrappers[i].t = lastOp.t

\* C5: dispose() is idempotent. Every call leaves the transport disposed with
\* each cleanup of its subscription list run exactly once, in order; a call on
\* a disposed transport runs no cleanup and changes nothing of the transport.
C5_DisposeIdempotent ==
    [][\A t \in Transports : lastOp'.op = "dispose" /\ lastOp'.t = t =>
          LET registered == { i \in 1..Len(wrappers) : wrappers[i].t = t } IN
          /\ ~lastOp'.threw
          /\ disposed'[t]
          /\ cleanupLog'[t] = [i \in 1..Cardinality(registered) |-> i]
          /\ disposed[t] => transportVars' = transportVars
      ]_vars

\* dispose() was called on a disposed transport whose two cleanups had run
C5_SecondDispose ==
    /\ lastOp.op = "dispose" /\ lastOp.logged
    /\ Len(cleanupLog[lastOp.t]) >= 2

\* C8: whatever the channel primitive does with the message, send returns
\* normally to its caller and leaves no failure unhandled.
C8_SendNeverThrows ==
    lastOp.op = "send" => ~lastOp.threw /\ ~lastOp.uncaught

\* C9: when the channel delivers a prefix-matching message to a transport,
\* every handler registered on it is invoked for that message, whether or not
\* another one throws, and the dispatch does not throw.
C9_HandlerFailureIsolated ==
    [][lastOp'.op = "deliver" /\ lastOp'.ret =>
          /\ ~lastOp'.uncaught
          /\ \A lid \in 1..Len(wrappers) :
                (\/ \E k \in 1..Len(targetListeners[lastOp'.t]) :
                        targetListeners[lastOp'.t][k] = lid
                 \/ \E k \in 1..Len(messageHandlers[lastOp'.t]) :
                        messageHandlers[lastOp'.t][k] = lid)
                => \E k \in 1..Len(lastOp'.invoked) : lastOp'.invoked[k].lid = lid
      ]_vars

\* ------------------------------------------------------------ properties of the prefix
\* C6: when the two transports of a channel have distinct prefixes, a message
\* one of them sent invokes no handler registered on the other, and
\* handleMessage of the other returns false for it.
C6_PrefixIsolation ==
    /\ lastOp.op = "deliver"
    /\ messagePrefix["ti"] # messagePrefix["tr"]
    => ~lastOp.ret /\ lastOp.invoked = <<>>

\* C7: a string that does not start with the transport's prefix and a colon
\* makes handleMessage return false, reaches no handler (through the registry
\* or through a wrapper), raises nothing and leaves the registry, the
\* subscription list and the disposed flag of the transport as they were.
C7_ForeignMessageInert ==
    [][/\ lastOp'.op \in {"deliver", "receive"}
       /\ lastOp'.ev.isString
       /\ ~StartsWith(lastOp'.ev.data, messagePrefix[lastOp'.t] \o <<":">>)
       => /\ ~lastOp'.ret
          /\ lastOp'.invoked = <<>>
          /\ lastOp'.reported = 0 /\ lastOp'.caught = 0 /\ ~lastOp'.uncaught
          /\ transportVars' = transportVars
      ]_vars

\* a string with the prefix but not its colon reached a transport with a
\* registered listener
C7_NearMissReceived ==
    /\ lastOp.op = "receive" /\ lastOp.ev.isString
    /\ lastOp.ev.data = messagePrefix[lastOp.t] \o <<"m">>
    /\ targetListeners[lastOp.t] \o messageHandlers[lastOp.t] # <<>>

\* ------------------------------------------------------------ cleanups that dispose
\* A transport whose subscription list also holds cleanups that call dispose()
\* on it: listeners and such cleanups are registered in any order, messages
\* are sent and delivered, the transport is disposed (a dispose() that threw is
\* not tried again).
ReentrantNext ==
    \/ \E t \in Transports, throws \in BOOLEAN :
            /\ \A i \in 1..Len(wrappers) : wrappers[i].t = t
            /\ AddMessageListener(t, UserHandler(throws))
    \/ \E t \in Transports : AddSubscription(t)
    \/ \E t \in Transports :
            /\ cleanupLog[t] = <<>> \/ disposed[t]
            /\ Dispose(t)
    \/ \E t \in Transports, m \in Payloads, o \in PrimitiveOutcomes : Send(t, m, o)
    \/ \E t \in Transports : Deliver(t)

ReentrantSpec == TransportInit /\ [][ReentrantNext]_vars

\* C4: a call of dispose() returns normally and leaves the transport disposed
\* with no cleanup of its subscription list run more than once, also when one
\* of the cleanups calls dispose() on the same transport.
C4_ReentrantDisposeSafe ==
    lastOp.op = "dispose" =>
        /\ ~lastOp.threw
        /\ disposed[lastOp.t]
        /\ \A i, j \in 1..Len(cleanupLog[lastOp.t]) :
              i # j => cleanupLog[lastOp.t][i] # cleanupLog[lastOp.t][j]

\* ------------------------------------------------------------ properties of the protocol
\* C1: while the calls for two distinct requestIds A and B are both
\* suspended, a response envelope 'response:A:<json>' reaching the
\* interceptor changes nothing of the call awaiting B: no respondWith on it,
\* no resumption.
C1_CorrelationIsolation ==
    [][\A A \in RequestIds, r \in ResponseRecords :
          /\ lastOp'.op = "deliver" /\ lastOp'.t = "ti"
          /\ lastOp'.ev.data =
                Framed("ti", ResponseEnvelope(A, SerializeResponse(r)))
          => \A B \in RequestIds \ {A} :
                calls[A].state = "suspended" /\ calls[B].state = "suspended"
                => calls'[B] = calls[B]
      ]_vars

\* C2: a message with the transport prefix and 'response:X' whose payload is
\* missing or is no JSON, reaching the interceptor while the call for X is
\* suspended, resumes that call exactly once without a response, lets no
\* exception out of the listener and leaves the listener of X unregistered.
C2_MalformedResponseResumes ==
    [][\A X \in RequestIds :
          /\ lastOp'.op = "receive" /\ lastOp'.t = "ti"
          /\ calls[X].state = "suspended"
          /\ lastOp'.ev.data \in
                { Framed("ti", <<"response", ":">> \o X),
                  Framed("ti", ResponseEnvelope(X, <<"oops">>)) }
          => /\ calls'[X].state = "resumed"
             /\ calls'[X].resolves = 1
             /\ calls'[X].responses = <<>>
             /\ lastOp'.reported = 0 /\ lastOp'.caught = 0 /\ ~lastOp'.uncaught
             /\ \A k \in 1..Len(targetListeners'["ti"]) :
                    targetListeners'["ti"][k] # calls[X].lid
             /\ \A k \in 1..Len(messageHandlers'["ti"]) :
                    messageHandlers'["ti"][k] # calls[X].lid
      ]_vars

\* C10: whenever controller.respondWith has been called for the call of
\* request X, it was called once, the responder has answered X, and the
\* response carries the status and the body the responder supplied for X.
C10_ResolvedAsSupplied ==
    \A X \in RequestIds : calls[X].responses # <<>> =>
        /\ Len(calls[X].responses) = 1
        /\ supplied[X] # <<>>
        /\ calls[X].responses[1].status = supplied[X][1].status
        /\ calls[X].responses[1].body = supplied[X][1].body

\* C11: with the calls for two requests both suspended, the response envelope
\* of one of them, delivered first, resumes that call once with the response
\* it carries and leaves the other call suspended and without a response.
C11_OutOfOrderResponses ==
    [][\A first, second \in RequestIds, r \in ResponseRecords :
          /\ first # second
          /\ calls[first].state = "suspended" /\ calls[second].state = "suspended"
          /\ lastOp'.op = "deliver" /\ lastOp'.t = "ti"
          /\ lastOp'.ev.data =
                Framed("ti", ResponseEnvelope(first, SerializeResponse(r)))
          => /\ calls'[first].state = "resumed"
             /\ calls'[first].resolves = 1
             /\ calls'[first].responses = <<FetchResponse(r)>>
             /\ calls'[second].state = "suspended"
             /\ calls'[second].resolves = 0
             /\ calls'[second].responses = <<>>
      ]_vars

\* ------------------------------------------------------------ the peer process ends
\* Both roles over the child-process medium: requests are intercepted, the
\* channel delivers, the responder answers, and the child process of the
\* resolver-side transport reports 'error' or 'exit'.
TeardownInit ==
    /\ realization = "process"
    /\ Configured(<< <<>>, <<>> >>)
    /\ Constructed

TeardownNext ==
    \/ SetupInterceptor
    \/ SetupResolver
    \/ \E id \in RequestIds, q \in Intercepted : Intercept(id, q, "ok")
    \/ \E req \in inbox, resp \in MockedResponses : Respond(req, resp, "ok")
    \/ \E t \in Transports : Deliver(t)
    \/ PeerExit

TeardownSpec == TeardownInit /\ [][TeardownNext]_vars

RequestTraffic ==
    { [isString |-> TRUE, source |-> "peer", origin |-> Origin("ti"), from |-> "env",
       data |-> Framed("tr", RequestEnvelope(SerializedRequestOf(id, q)))] :
            id \in RequestIds, q \in Intercepted }

\* Both roles over each medium, in every pair of host environments in which
\* the transport of at least one role is not available.
AvailabilityInit ==
    /\ realization \in Realizations
    /\ messagePrefix = [t \in Transports |-> DefaultPrefix]
    /\ sourceOrigin = [t \in Transports |-> ""]
    /\ host \in [Transports -> Hosts]
    /\ \E t \in Transports : ~IsAvailable(t)
    /\ Constructed

AvailabilityNext ==
    \/ SetupInterceptor
    \/ SetupResolver
    \/ \E id \in RequestIds, q \in Intercepted, o \in PrimitiveOutcomes :
            Intercept(id, q, o)
    \/ \E req \in inbox, resp \in MockedResponses, o \in PrimitiveOutcomes :
            Respond(req, resp, o)
    \/ \E t \in Transports : Deliver(t)
    \/ \E ev \in RequestTraffic : inbox = {} /\ Receive("tr", ev)

AvailabilitySpec == AvailabilityInit /\ [][AvailabilityNext]_vars

\* C13: a role that was set up with a transport whose isAvailable() is false
\* did not throw, has no message listener on the transport, has sent no
\* envelope and sends none, and has no intercepted call suspended (the
\* interceptor) and no request handed to a responder (the resolver).
C13_UnavailableRoleInert ==
    \A t \in Transports :
        LET role == IF t = "ti" THEN "interceptor" ELSE "resolver" IN
        (applied[role] # "new" /\ ~IsAvailable(t)) =>
            /\ applied[role] = "inert"
            /\ \A i \in 1..Len(wrappers) : wrappers[i].t # t
            /\ targetListeners[t] = <<>> /\ messageHandlers[t] = <<>>
            /\ subscriptions[t] = <<>> /\ lifecycle[t] = {}
            /\ lastOp.t = t =>
                  ~lastOp.sent /\ ~lastOp.threw /\ ~lastOp.uncaught
                  /\ lastOp.invoked = <<>>
            /\ \A i \in 1..Len(channel[Peer(t)]) : channel[Peer(t)][i].from # t
            /\ t = "ti" => \A id \in RequestIds : calls[id] = IdleCall
            /\ t = "tr" => inbox = {} /\ emitted = <<>>
                           /\ \A id \in RequestIds : supplied[id] = <<>>

\* a request envelope reached the endpoint of a resolver that was set up
\* with an unavailable transport
C13_RequestReachedInertResolver ==
    /\ applied.resolver = "inert" /\ ~IsAvailable("tr")
    /\ lastOp.op = "deliver" /\ lastOp.t = "tr"
    /\ \E id \in RequestIds : calls[id].state = "suspended"

\* ------------------------------------------------------------ the request round trip
\* Both roles in a usable environment over each medium: requests of several
\* shapes are intercepted and the channel delivers their envelopes.
RoundTripInit ==
    /\ realization \in Realizations
    /\ Configured(<< <<>>, <<>> >>)
    /\ Constructed

RoundTripNext ==
    \/ SetupInterceptor
    \/ SetupResolver
    \/ \E id \in RequestIds, q \in Intercepted \cup RoundTripRequests :
            Intercept(id, q, "ok")
    \/ \E t \in Transports : Deliver(t)

RoundTripSpec == RoundTripInit /\ [][RoundTripNext]_vars

\* C14: when the envelope of an intercepted request reaches the resolver's
\* listener, the resolver reconstructs a request that agrees with the record
\* the interceptor serialized on id, method, url, header pairs in their
\* order, credentials mode and body, the body being null exactly for GET and
\* HEAD and the full body text otherwise.
C14_RequestRoundTrip ==
    [][\A id \in RequestIds, q \in Intercepted \cup RoundTripRequests :
          LET record == SerializedRequestOf(id, q) IN
          /\ lastOp'.op = "deliver" /\ lastOp'.t = "tr"
          /\ applied.resolver = "active"
          /\ lastOp'.ev.data = Framed("tr", RequestEnvelope(record))
          => /\ (record.body = Null) <=> (q.method \in {"GET", "HEAD"})
             /\ q.method \notin {"GET", "HEAD"} => record.body = q.text
             /\ \E request \in inbox' :
                   /\ request.id = record.id
                   /\ request.method = record.method
                   /\ request.url = record.url
                   /\ request.headers = record.headers
                   /\ request.credentials = record.credentials
                   /\ request.body = record.body
      ]_vars

\* C15: as long as the response envelope of an intercepted request X has not
\* arrived (no message 'response:X' and none beginning 'response:X:' reaches
\* the interceptor), whatever else happens leaves the call for X suspended
\* and its temporary listener registered.
C15_NoTimeoutNoCancellation ==
    [][\A X \in RequestIds :
          /\ calls[X].state = "suspended"
          /\ ~ /\ lastOp'.op \in {"deliver", "receive"} /\ lastOp'.t = "ti"
               /\ \/ lastOp'.ev.data = Framed("ti", <<"response", ":">> \o X)
                  \/ StartsWith(lastOp'.ev.data,
                                Framed("ti", <<"response", ":">> \o X \o Colon))
          => /\ calls'[X].state = "suspended"
             /\ \/ \E i \in 1..Len(targetListeners'["ti"]) :
                        targetListeners'["ti"][i] = calls[X].lid
                \/ \E i \in 1..Len(messageHandlers'["ti"]) :
                        messageHandlers'["ti"][i] = calls[X].lid
      ]_vars

\* ------------------------------------------------------------ the windowed receive filter
\* events a window receives: from the peer window or another one, of the
\* peer's origin or another one, carrying a well-framed string or a value
\* that is no string
WindowTraffic(t) ==
    { [isString |-> s, data |-> IF s THEN Framed(t, <<"m">>) ELSE <<>>,
       source |-> w, origin |-> o, from |-> "env"] :
            s \in BOOLEAN, w \in {"peer", "other"}, o \in {Origin(Peer(t)), "ox"} }

\* The windowed transports with and without a configured source origin:
\* listeners are added (all on one side in a run), messages are sent and
\* delivered, other windows post events.
FilterInit ==
    /\ realization = "iframe"
    /\ messagePrefix = [t \in Transports |-> DefaultPrefix]
    /\ sourceOrigin \in { f \in [Transports -> {"", "oi", "or"}] :
                            \A t \in Transports : f[t] \in SourceOriginOptions(t) }
    /\ host = [t \in Transports |-> ReadyHost]
    /\ Constructed

FilterNext ==
    \/ \E t \in Transports, m \in Payloads : Send(t, m, "ok")
    \/ \E t \in Transports, throws \in BOOLEAN :
            /\ \A i \in 1..Len(wrappers) : wrappers[i].t = t
            /\ AddMessageListener(t, UserHandler(throws))
    \/ \E t \in Transports : Deliver(t)
    \/ \E t \in Transports : \E ev \in WindowTraffic(t) : Receive(t, ev)

FilterSpec == FilterInit /\ [][FilterNext]_vars

\* C16: on either windowed transport an event reaches a registered handler
\* only if its payload is a string, its source is the peer window and, with
\* a source origin configured, its origin equals it; any other event invokes
\* no handler, raises no error and changes nothing.
C16_WindowedReceiveFilter ==
    [][\A t \in Transports :
          lastOp'.op \in {"deliver", "receive"} /\ lastOp'.t = t
          => LET ev == lastOp'.ev
                 accepted == /\ ev.isString
                             /\ ev.source = "peer"
                             /\ sourceOrigin[t] # "" => ev.origin = sourceOrigin[t]
             IN  /\ lastOp'.invoked # <<>> => accepted
                 /\ ~accepted =>
                       /\ lastOp'.invoked = <<>>
                       /\ lastOp'.reported = 0 /\ lastOp'.caught = 0
                       /\ ~lastOp'.uncaught /\ lastOp'.rejected = 0
                       /\ UNCHANGED <<transportVars, roleVars>>
      ]_vars

\* ------------------------------------------------------------ the resolver's decisions
\* well-framed messages that reach the resolver's listener and are no
\* request envelopes: a response envelope, a bare word, 'request' without
\* its colon, a tag that only begins with 'request'
NonRequestTraffic ==
    { [isString |-> TRUE, source |-> "peer", origin |-> Origin("ti"), from |-> "env",
       data |-> Framed("tr", m)] :
            m \in { ResponseEnvelope(<<"r", "1">>,
                                     SerializeResponse(SerializedResponseOf(NetworkError))),
                    <<"m">>, <<"request">>, <<"requests", ":", "{", "}">> } }

\* The resolver in a usable environment over each medium: request envelopes
\* and other messages reach it, the responder answers the requests it was
\* handed, and the channel delivers the answers.
ResolverInit ==
    /\ realization \in Realizations
    /\ Configured(<< <<>>, <<>> >>)
    /\ Constructed

ResolverNext ==
    \/ SetupResolver
    \/ \E ev \in RequestTraffic :
            Cardinality(inbox) < MaxRequests /\ Receive("tr", ev)
    \/ \E ev \in NonRequestTraffic : Receive("tr", ev)
    \/ \E req \in inbox, resp \in MockedResponses, o \in PrimitiveOutcomes :
            Respond(req, resp, o)
    \/ Deliver("ti")

ResolverSpec == ResolverInit /\ [][ResolverNext]_vars

\* Both roles in a usable environment over each medium: requests are
\* intercepted and delivered, and the responder answers them with a network
\* error or with errorWith.
DecisionInit ==
    /\ realization \in Realizations
    /\ Configured(<< <<>>, <<>> >>)
    /\ Constructed

DecisionNext ==
    \/ SetupInterceptor
    \/ SetupResolver
    \/ \E id \in RequestIds, q \in Intercepted : Intercept(id, q, "ok")
    \/ \E t \in Transports : Deliver(t)
    \/ \E req \in inbox : Respond(req, NetworkError, "ok")
    \/ \E req \in inbox : ErrorWith(req)

DecisionSpec == DecisionInit /\ [][DecisionNext]_vars

\* C17: when the responder calls respondWith with a normal response for a
\* request whose envelope the resolver received with id X, the resolver
\* passes exactly one message to its transport, 'response:X:<json>' with
\* that X and the serialized response, and that message alone enters the
\* channel (none when the transport's send fails); no other
\* step puts anything in flight towards the interceptor.
C17_ResponseTagging ==
    [][/\ \A X \in RequestIds :
            (/\ lastOp'.op = "respondWith"
             /\ Len(supplied'[X]) = Len(supplied[X]) + 1
             /\ supplied'[X][Len(supplied'[X])] # NetworkError) =>
                /\ X \in { req.id : req \in inbox }
                /\ \A Y \in RequestIds \ {X} : supplied'[Y] = supplied[Y]
                /\ lastOp'.ev.data =
                      messagePrefix["tr"] \o <<":", "response", ":">> \o X \o <<":">>
                      \o SerializeResponse(SerializedResponseOf(
                              supplied'[X][Len(supplied'[X])]))
                /\ channel'["tr"] = channel["tr"]
                /\ channel'["ti"] = IF lastOp'.sent
                                    THEN Append(channel["ti"], lastOp'.ev)
                                    ELSE channel["ti"]
       /\ (lastOp'.op # "respondWith" \/ ~lastOp'.sent) =>
            Len(channel'["ti"]) <= Len(channel["ti"])
      ]_vars

\* the responder answered one of two requests it holds, and the envelope is
\* in flight
C17_AnsweredOneOfTwo ==
    /\ lastOp.op = "respondWith" /\ lastOp.sent
    /\ channel["ti"] # <<>>
    /\ channel["ti"][Len(channel["ti"])] = lastOp.ev
    /\ Cardinality({ req.id : req \in inbox }) >= 2

\* C18: a message that reaches the resolver's listener and whose content
\* after the transport prefix does not start with 'request:' changes nothing
\* of the resolver: no request is handed to a responder, nothing is sent,
\* nothing is emitted, and no error is raised.
C18_NonRequestIgnored ==
    [][(/\ lastOp'.op \in {"deliver", "receive"} /\ lastOp'.t = "tr"
        /\ applied.resolver = "active"
        /\ StartsWith(lastOp'.ev.data, messagePrefix["tr"] \o Colon)
        /\ ~StartsWith(Substring(lastOp'.ev.data, Len(messagePrefix["tr"]) + 1),
                       <<"request", ":">>))
        => /\ inbox' = inbox /\ supplied' = supplied /\ emitted' = emitted
           /\ channel'["ti"] = channel["ti"]
           /\ lastOp'.reported = 0 /\ lastOp'.caught = 0 /\ lastOp'.rejected = 0
           /\ ~lastOp'.uncaught /\ ~lastOp'.threw /\ ~lastOp'.sent
      ]_vars

\* a response envelope reached the listener of a resolver that holds a request
C18_ResponseEnvelopeAtResolver ==
    /\ lastOp.op = "receive" /\ lastOp.t = "tr"
    /\ lastOp.invoked # <<>>
    /\ StartsWith(lastOp.ev.data, Framed("tr", <<"response", ":">>))
    /\ inbox # {}

\* C19: when the responder calls errorWith, or respondWith with a
\* network-error response, the call throws, nothing is sent, no response
\* envelope is in flight for that request, no 'response' event is emitted
\* and every interceptor-side call is left as it was.
C19_UnimplementedDecisions ==
    [][(\/ lastOp'.op = "errorWith"
        \/ \E X \in RequestIds :
              /\ Len(supplied'[X]) = Len(supplied[X]) + 1
              /\ supplied'[X][Len(supplied'[X])] = NetworkError)
        => /\ lastOp'.threw /\ ~lastOp'.sent
           /\ channel' = channel
           /\ emitted' = emitted
           /\ calls' = calls
      ]_vars

\* the responder answered a request whose call is suspended with a network
\* error
C19_NetworkErrorForSuspendedCall ==
    /\ lastOp.op = "respondWith" /\ lastOp.threw
    /\ \E req \in inbox :
          /\ supplied[req.id] = <<NetworkError>>
          /\ calls[req.id].state = "suspended"

\* C20: the first dispose() of a transport invokes the cleanups of its
\* subscription list from the first to the last, each once, so that every
\* listener they stand for is removed, and it ends with the subscription
\* list empty, the handler registry cleared and the transport marked
\* disposed, without throwing.
C20_DisposalOrder ==
    [][\A t \in Transports :
          (lastOp'.op \in {"dispose", "peerExit"} /\ lastOp'.t = t /\ ~disposed[t]) =>
              /\ cleanupLog[t] = <<>>
              /\ cleanupLog'[t] = [i \in 1..Len(subscriptions[t]) |-> i]
              /\ \A i \in 1..Len(subscriptions[t]) :
                    /\ subscriptions[t][i].kind = "unsubscribe"
                    /\ \A j \in 1..Len(targetListeners'[t]) :
                          targetListeners'[t][j] # subscriptions[t][i].lid
                    /\ subscriptions[t][i].lid \notin lifecycle'[t]
              /\ messageHandlers'[t] = <<>>
              /\ subscriptions'[t] = <<>>
              /\ disposed'[t]
              /\ ~lastOp'.threw /\ ~lastOp'.uncaught
      ]_vars

\* a first dispose() ran the cleanups of two subscriptions
C20_TwoCleanupsRan ==
    /\ lastOp.op = "dispose" /\ ~lastOp.logged
    /\ disposed[lastOp.t]
    /\ cleanupLog[lastOp.t] = <<1, 2>>
    /\ subscriptions[lastOp.t] = <<>>

\* C21: whenever the responder calls respondWith with a normal response for
\* the request with id X, the resolver emits exactly one 'response' event
\* for X in that same call, whatever the transport did with the envelope and
\* without any message from the interceptor.
C21_OptimisticNotification ==
    [][\A X \in RequestIds :
          (/\ lastOp'.op = "respondWith"
           /\ Len(supplied'[X]) = Len(supplied[X]) + 1
           /\ supplied'[X][Len(supplied'[X])] # NetworkError)
          => emitted' = Append(emitted, X)
      ]_vars

\* C22: the raw string send(m) hands to the channel on a transport with
\* prefix P is P, a colon and m; and when the channel delivers the raw string
\* P:m to a transport with that prefix P, every handler that runs is called
\* with exactly m, the first registered one among them.
C22_PrefixFramingRoundTrip ==
    [][\A t \in Transports :
          /\ (lastOp'.op = "send" /\ lastOp'.t = t /\ lastOp'.sent) =>
                LET q == channel'[Peer(t)] IN
                /\ Len(q) = Len(channel[Peer(t)]) + 1
                /\ q[Len(q)].isString
                /\ q[Len(q)].data = messagePrefix[t] \o <<":">> \o lastOp'.msg
          /\ \A m \in Payloads :
                (/\ lastOp'.op = "deliver" /\ lastOp'.t = t
                 /\ lastOp'.ev.data = messagePrefix[t] \o <<":">> \o m
                 /\ targetListeners[t] \o messageHandlers[t] # <<>>) =>
                    /\ lastOp'.invoked # <<>>
                    /\ lastOp'.invoked[1].lid =
                          Head(targetListeners[t] \o messageHandlers[t])
                    /\ \A i \in 1..Len(lastOp'.invoked) : lastOp'.invoked[i].msg = m
      ]_vars

\* a payload with a colon in it, sent under a configured prefix with a colon
\* in it, reached a handler of the peer
C22_ColonPayloadDelivered ==
    /\ lastOp.op = "deliver" /\ lastOp.invoked # <<>>
    /\ lastOp.invoked[1].msg = <<"b", ":", "m">>
    /\ lastOp.ev.from = Peer(lastOp.t)
    /\ \A pt \in Transports : messagePrefix[pt] = <<"a", ":", "b">>

\* C23: a role that was set up found its transport available exactly when:
\* windowed, interceptor side - a window with postMessage exists and differs
\* from window.parent; windowed, resolver side - such a window exists and a
\* target window is configured and differs from it; process, interceptor
\* side - process.send exists; process, resolver side - a peer process
\* handle is configured.
C23_AvailabilityRules ==
    \A t \in Transports :
        LET role == IF t = "ti" THEN "interceptor" ELSE "resolver"
            h == host[t]
            rule ==
              CASE realization = "iframe" /\ t = "ti" ->
                      h.window /\ h.postMessage /\ h.distinct
                [] realization = "iframe" /\ t = "tr" ->
                      h.window /\ h.postMessage /\ h.target /\ h.distinct
                [] realization = "process" /\ t = "ti" -> h.processSend
                [] realization = "process" /\ t = "tr" -> h.target
                [] OTHER -> TRUE
        IN  /\ applied[role] # "new" => (applied[role] = "active" <=> rule)
            /\ (lastOp.op \in {"setupInterceptor", "setupResolver"} /\ lastOp.t = t
                /\ ~rule) => ~lastOp.ret

\* the interceptor was set up in a top-level window (its own parent) and the
\* resolver in a process without a peer handle or a window without target
C23_TopLevelWindowUnavailable ==
    /\ realization = "iframe"
    /\ host["ti"] = TopLevelHost /\ applied.interceptor = "inert"
    /\ host["tr"] = NoTargetHost /\ applied.resolver = "inert"

\* ------------------------------------------------------------ pass-through
\* Both roles in a usable environment over each medium: requests are
\* intercepted and delivered, and the responder answers a request with a
\* response or passes it through.
PassthroughInit ==
    /\ realization \in Realizations
    /\ Configured(<< <<>>, <<>> >>)
    /\ Constructed

PassthroughNext ==
    \/ SetupInterceptor
    \/ SetupResolver
    \/ \E id \in RequestIds, q \in Intercepted : Intercept(id, q, "ok")
    \/ \E t \in Transports : Deliver(t)
    \/ \E req \in inbox, resp \in MockedResponses : Respond(req, resp, "ok")
    \/ \E req \in inbox : Passthrough(req)

PassthroughSpec == PassthroughInit /\ [][PassthroughNext]_vars

\* C24: the step in which the responder passes a request through puts
\* nothing on the channel and emits no 'response' event, and from then on
\* the interceptor's call for that requestId stays suspended with its
\* temporary listener registered.
C24_PassthroughSendsNothing ==
    [][/\ lastOp'.op = "passthrough" => (channel' = channel /\ emitted' = emitted)
       /\ \A X \in RequestIds :
            (supplied[X] = <<PassedThrough>> /\ calls[X].state = "suspended") =>
                /\ calls'[X].state = "suspended"
                /\ \/ \E i \in 1..Len(targetListeners'["ti"]) :
                           targetListeners'["ti"][i] = calls[X].lid
                   \/ \E i \in 1..Len(messageHandlers'["ti"]) :
                           messageHandlers'["ti"][i] = calls[X].lid
      ]_vars

\* ------------------------------------------------------------ the subscription list
\* response envelopes that reach the interceptor-side endpoint from the peer,
\* for the requests whose calls are suspended
ResponseTraffic ==
    { [isString |-> TRUE, source |-> "peer", origin |-> Origin("tr"), from |-> "env",
       data |-> Framed("ti", RespondEnvelope(id, resp))] :
            id \in { x \in RequestIds : calls[x].state = "suspended" },
            resp \in { r \in MockedResponses : r.status = "200" } }

\* The interceptor in a usable environment over each medium, with a caller
\* that uses the transports directly: requests are intercepted, their
\* envelopes leave the channel, response envelopes arrive, listeners are
\* added (by the caller all on one side in a run) and unsubscribed,
\* transports are disposed.
SubscriptionInit ==
    /\ realization \in Realizations
    /\ Configured(<< <<>>, <<>> >>)
    /\ Constructed

SubscriptionNext ==
    \/ SetupInterceptor
    \/ \E id \in RequestIds, q \in { x \in Intercepted : x.method = "GET" } :
            Intercept(id, q, "ok")
    \/ Deliver("tr")
    \/ \E ev \in ResponseTraffic : Receive("ti", ev)
    \/ \E t \in Transports :
            /\ \A i \in 1..Len(wrappers) :
                    wrappers[i].handler.role = "user" => wrappers[i].t = t
            /\ AddMessageListener(t, UserHandler(FALSE))
    \/ \E lid \in 1..Len(wrappers) :
            wrappers[lid].handler.role = "user" /\ Unsubscribe(lid)
    \/ \E t \in Transports : ~disposed[t] /\ Dispose(t)

SubscriptionSpec == SubscriptionInit /\ [][SubscriptionNext]_vars

\* the number of listeners registered on transport t so far
Registered(t, ws) ==
    Cardinality({ i \in 1..Len(ws) : ws[i].t = t })

\* C25: on an undisposed transport an addMessageListener call appends one
\* entry to the subscription list; the returned unsubscribe takes the
\* listener off the channel or registry and leaves the list as it is; before
\* disposal the list is as long as the number of listeners added so far; on
\* the interceptor every intercepted request, resumed or not, has its entry
\* in the list; and dispose() invokes every entry of the list, those already
\* unsubscribed included.
C25_SubscriptionListGrowth ==
    [][\A t \in Transports :
          /\ (lastOp'.op = "addMessageListener" /\ lastOp'.t = t /\ ~disposed[t]) =>
                /\ lastOp'.lid = Len(wrappers) + 1
                /\ subscriptions'[t] =
                      Append(subscriptions[t], UnsubscribeEntry(lastOp'.lid))
                /\ Registered(t, wrappers') = Registered(t, wrappers) + 1
          /\ (lastOp'.op = "unsubscribe" /\ lastOp'.t = t) =>
                /\ subscriptions'[t] = subscriptions[t]
                /\ \A i \in 1..Len(targetListeners'[t]) :
                        targetListeners'[t][i] # lastOp'.lid
                /\ \A i \in 1..Len(messageHandlers'[t]) :
                        messageHandlers'[t][i] # lastOp'.lid
          /\ ~disposed'[t] =>
                Len(subscriptions'[t]) = Registered(t, wrappers')
          /\ (t = "ti" /\ ~disposed'[t]) =>
                \A id \in RequestIds :
                    calls'[id].lid # 0 =>
                        \E i \in 1..Len(subscriptions'[t]) :
                            subscriptions'[t][i] = UnsubscribeEntry(calls'[id].lid)
          /\ (lastOp'.op = "dispose" /\ lastOp'.t = t /\ ~disposed[t]) =>
                /\ Len(cleanupLog'[t]) = Len(cleanupLog[t]) + Len(subscriptions[t])
                /\ \A i \in 1..Len(subscriptions[t]) :
                        cleanupLog'[t][Len(cleanupLog[t]) + i] = i
      ]_vars

\* the interceptor's transport was disposed after one of two intercepted
\* requests had been resumed: both retained entries were invoked
C25_ResumedEntryInvokedAgain ==
    /\ lastOp.op = "dispose" /\ lastOp.t = "ti"
    /\ cleanupLog["ti"] = <<1, 2>>
    /\ \E id \in RequestIds : calls[id].state = "resumed"
    /\ \E id \in RequestIds : calls[id].state = "suspended"

\* C26: the step that intercepts request X and sends its envelope also
\* registers the temporary listener of X, with nothing dispatched in
\* between; and when the channel later delivers the response envelope
\* tagged X to the interceptor, that listener is among those invoked.
C26_SendThenRegister ==
    [][\A X \in RequestIds :
          /\ (lastOp'.op = "intercept" /\ lastOp'.sent
              /\ calls[X].state = "idle" /\ calls'[X].state # "idle") =>
                /\ calls'[X].state = "suspended"
                /\ Len(channel'["tr"]) = Len(channel["tr"]) + 1
                /\ channel'["ti"] = channel["ti"]
                /\ \/ \E i \in 1..Len(targetListeners'["ti"]) :
                           targetListeners'["ti"][i] = calls'[X].lid
                   \/ \E i \in 1..Len(messageHandlers'["ti"]) :
                           messageHandlers'["ti"][i] = calls'[X].lid
          /\ (/\ lastOp'.op = "deliver" /\ lastOp'.t = "ti"
              /\ calls[X].lid # 0
              /\ StartsWith(lastOp'.ev.data,
                            Framed("ti", <<"response", ":">> \o X \o Colon))) =>
                \E i \in 1..Len(lastOp'.invoked) :
                    lastOp'.invoked[i].lid = calls[X].lid
      ]_vars

====
